---- MODULE Spec2Model ----
(***************************************************************************)
(* Model of app/endpoint.py: a FastAPI service over two SQL tables, tasks  *)
(* and pomodoro_sessions.  Every endpoint is a plain `def`, so FastAPI     *)
(* runs each request on a thread-pool worker with its own SQLAlchemy       *)
(* session (get_db).  A request is therefore a sequence of SQL statements, *)
(* each atomic at the database, and the statements of different requests   *)
(* interleave.                                                             *)
(*                                                                         *)
(* Spec      the whole service.  The pomodoro handlers run statement by    *)
(*           statement (the query of a check, then the flush+commit), so   *)
(*           that requests on the session table interleave; a task handler *)
(*           is one action, taken at its commit.  The pomodoro handlers    *)
(*           read of the task table only whether an id exists, which       *)
(*           changes at the commits of create_task and delete_task alone.  *)
(* TaskSpec  the task handlers create/update/delete run statement by       *)
(*           statement, so that requests on the task table interleave.     *)
(***************************************************************************)
EXTENDS Integers, Sequences, FiniteSets, TLC

\* ---- bounds of the model ----
MaxTasks == 2       \* task rows ever inserted (ids are never reused, as uuid4)
MaxSessions == 2    \* session rows ever inserted
MaxClock == 30      \* last clock value, in minutes
TickStep == 30      \* minutes the clock advances in one Tick

\* thread-pool workers serving requests
Procs == {"w1", "w2"}
\* request inputs
NoDescription == "None"
TaskIds == 1..MaxTasks

\* timedelta(minutes=25), and the credit per completed session in the stats
FocusMinutes == 25
StatsCredit == 25

\* the request bodies `Task` (pydantic model, validated) that are sent: two
\* titles that differ in case only, and two bodies with the same title
Task ==
    { [title |-> "abc", description |-> NoDescription, status |-> "TODO"],
      [title |-> "abc", description |-> "notes", status |-> "DONE"],
      [title |-> "ABC", description |-> NoDescription, status |-> "IN_PROGRESS"] }
NoTask == [title |-> "", description |-> "", status |-> ""]

VARIABLES
    tasks,        \* table tasks: id -> [title, description, status]
    sessions,     \* table pomodoro_sessions in insertion order; the row's
                  \* position stands for its uuid primary key
    nextTaskId,   \* next fresh task id
    now,          \* datetime.now(), in minutes
    pc,           \* per worker: the statement its handler executes next
    arg_id,       \* per worker: path/query parameter task_id
    arg_task,     \* per worker: request body
    loaded,       \* per worker: the task row loaded into the ORM session
    loaded_sess,  \* per worker: the session row loaded (0: none)
    last          \* the response sent last: handler, task_id, HTTP status and,
                  \* for /pomodoro/stats, the stats mapping

vars == <<tasks, sessions, nextTaskId, now, pc, arg_id, arg_task,
          loaded, loaded_sess, last>>
stores == <<tasks, sessions>>

EmptyMap == [t \in {} |-> 0]

Init ==
    /\ tasks = [t \in {} |-> NoTask]
    /\ sessions = <<>>
    /\ nextTaskId = 1
    /\ now = 0
    /\ pc = [p \in Procs |-> "idle"]
    /\ arg_id = [p \in Procs |-> 0]
    /\ arg_task = [p \in Procs |-> NoTask]
    /\ loaded = [p \in Procs |-> NoTask]
    /\ loaded_sess = [p \in Procs |-> 0]
    /\ last = [op |-> "none", task_id |-> 0, status |-> 0, stats |-> EmptyMap]

\* ---- queries ----

\* db.query(TaskModel).filter(TaskModel.id == task_id).first()
TaskExists(task_id) == task_id \in DOMAIN tasks

\* db.query(TaskModel).filter(TaskModel.title == task.title).first()
TitleExists(title) == \E t \in DOMAIN tasks : tasks[t].title = title

\* a plausible slip: the id exclusion of update_task's check left out
TitleExistsOther_noExclude(title, task_id) ==
    \E t \in DOMAIN tasks : tasks[t].title = title

\* db.query(TaskModel).filter(TaskModel.title == updated_task.title,
\*                            TaskModel.id != task_id).first()
TitleExistsOther(title, task_id) ==
    \E t \in DOMAIN tasks : tasks[t].title = title /\ t # task_id

\* a plausible slip: the unique constraint on tasks.title left out
UniqueViolated_none(title, task_id) == FALSE

\* Column(String(100), unique=True): writing `title` to row task_id (a new or
\* an existing row) is refused when another row holds the title
UniqueViolated(title, task_id) ==
    \E t \in DOMAIN tasks : t # task_id /\ tasks[t].title = title

\* a plausible slip: the completed filter left out of the active-session query
ActiveSessions_anySession(task_id) ==
    {i \in 1..Len(sessions) : sessions[i].task_id = task_id}

\* db.query(PomodoroSession).filter(PomodoroSession.task_id == task_id,
\*                                  PomodoroSession.completed == False)
ActiveSessions(task_id) ==
    {i \in 1..Len(sessions) :
        sessions[i].task_id = task_id /\ sessions[i].completed = FALSE}

\* a plausible slip: the session's own duration is not the fixed focus time
NewSession_wrongEnd(task_id, start_time) ==
    [task_id |-> task_id, start_time |-> start_time,
     end_time |-> start_time + FocusMinutes + 1, completed |-> FALSE]

\* PomodoroSession(task_id=task_id, start_time=start_time,
\*                 end_time=start_time + timedelta(minutes=25), completed=False)
NewSession(task_id, start_time) ==
    [task_id |-> task_id, start_time |-> start_time,
     end_time |-> start_time + FocusMinutes, completed |-> FALSE]

\* ---- bookkeeping of a worker ----

\* the handler of worker p returns or raises: the response is sent and the
\* worker's ORM session is closed (get_db)
Respond(p, name, task_id, status) ==
    /\ pc' = [pc EXCEPT ![p] = "idle"]
    /\ arg_id' = [arg_id EXCEPT ![p] = 0]
    /\ arg_task' = [arg_task EXCEPT ![p] = NoTask]
    /\ loaded' = [loaded EXCEPT ![p] = NoTask]
    /\ loaded_sess' = [loaded_sess EXCEPT ![p] = 0]
    /\ last' = [op |-> name, task_id |-> task_id, status |-> status,
                stats |-> EmptyMap]

\* the handler of worker p goes on to its next statement
Continue(p, label, task_id) ==
    /\ pc' = [pc EXCEPT ![p] = label]
    /\ arg_id' = [arg_id EXCEPT ![p] = task_id]
    /\ UNCHANGED last

\* workers that have passed the checks of a handler that inserts a row
Pending(labels) == Cardinality({q \in Procs : pc[q] \in labels})

\* ---- GET / ----
read_root(p) ==
    /\ pc[p] = "idle"
    /\ Respond(p, "read_root", 0, 200)
    /\ UNCHANGED <<tasks, sessions, nextTaskId, now>>

\* ---- POST /tasks ----

\* line 62-64: INSERT of a row with a fresh id, and commit; the unique
\* constraint on title makes the commit raise IntegrityError (an unhandled
\* exception: 500, nothing written)
InsertTask(task) ==
    IF UniqueViolated(task.title, nextTaskId)
    THEN [status |-> 500, tasks |-> tasks]
    ELSE [status |-> 200,
          tasks |-> [t \in DOMAIN tasks \cup {nextTaskId} |->
                        IF t = nextTaskId THEN task ELSE tasks[t]]]

\* line 59-66, as one action
create_task(p, task) ==
    /\ pc[p] = "idle"
    /\ TitleExists(task.title) \/ nextTaskId <= MaxTasks
    /\ IF TitleExists(task.title)
       THEN /\ Respond(p, "create_task", 0, 400)
            /\ UNCHANGED <<tasks, nextTaskId>>
       ELSE LET r == InsertTask(task)
            IN /\ tasks' = r.tasks
               /\ nextTaskId' = IF r.status = 200 THEN nextTaskId + 1 ELSE nextTaskId
               /\ Respond(p, "create_task",
                          IF r.status = 200 THEN nextTaskId ELSE 0, r.status)
    /\ UNCHANGED <<sessions, now>>

\* line 60-61: the title check; 400 when the title is taken
create_task_check(p, task) ==
    /\ pc[p] = "idle"
    /\ TitleExists(task.title)
         \/ nextTaskId + Pending({"create_task_commit"}) <= MaxTasks
    /\ IF TitleExists(task.title)
       THEN Respond(p, "create_task", 0, 400)
       ELSE /\ Continue(p, "create_task_commit", 0)
            /\ arg_task' = [arg_task EXCEPT ![p] = task]
            /\ UNCHANGED <<loaded, loaded_sess>>
    /\ UNCHANGED <<tasks, sessions, nextTaskId, now>>

\* line 62-66
create_task_commit(p) ==
    /\ pc[p] = "create_task_commit"
    /\ LET r == InsertTask(arg_task[p])
       IN /\ tasks' = r.tasks
          /\ nextTaskId' = IF r.status = 200 THEN nextTaskId + 1 ELSE nextTaskId
          /\ Respond(p, "create_task",
                     IF r.status = 200 THEN nextTaskId ELSE 0, r.status)
    /\ UNCHANGED <<sessions, now>>

\* ---- GET /tasks and GET /tasks/{task_id} ----

\* line 70-73: one SELECT, with or without the status filter; the rows
\* returned are not kept, only that the request is answered
get_tasks(p) ==
    /\ pc[p] = "idle"
    /\ Respond(p, "get_tasks", 0, 200)
    /\ UNCHANGED <<tasks, sessions, nextTaskId, now>>

\* line 77-80
get_task(p, task_id) ==
    /\ pc[p] = "idle"
    /\ Respond(p, "get_task", task_id, IF TaskExists(task_id) THEN 200 ELSE 404)
    /\ UNCHANGED <<tasks, sessions, nextTaskId, now>>

\* ---- PUT /tasks/{task_id} ----

\* the columns the flush writes: those whose new value differs from the
\* value loaded at line 84 (the ORM emits no UPDATE for an unchanged attribute)
Dirty(old, new) == {c \in {"title", "description", "status"} : old[c] # new[c]}

\* line 91-94: assign, flush, commit.  UPDATE ... WHERE id = task_id raises
\* StaleDataError when the row is gone and IntegrityError when the new title
\* is held by another row (unhandled: 500, nothing written)
UpdateTask(task_id, old, new) ==
    LET d == Dirty(old, new)
    IN IF d = {} THEN [status |-> 200, tasks |-> tasks]
       ELSE IF ~TaskExists(task_id) THEN [status |-> 500, tasks |-> tasks]
       ELSE IF "title" \in d /\ UniqueViolated(new.title, task_id)
       THEN [status |-> 500, tasks |-> tasks]
       ELSE [status |-> 200,
             tasks |-> [tasks EXCEPT ![task_id] =
                          [c \in {"title", "description", "status"} |->
                              IF c \in d THEN new[c] ELSE tasks[task_id][c]]]]

\* line 83-95, as one action
update_task(p, task_id, updated_task) ==
    /\ pc[p] = "idle"
    /\ IF ~TaskExists(task_id)
       THEN Respond(p, "update_task", task_id, 404) /\ UNCHANGED tasks
       ELSE IF TitleExistsOther(updated_task.title, task_id)
       THEN Respond(p, "update_task", task_id, 400) /\ UNCHANGED tasks
       ELSE LET r == UpdateTask(task_id, tasks[task_id], updated_task)
            IN /\ tasks' = r.tasks
               /\ Respond(p, "update_task", task_id, r.status)
    /\ UNCHANGED <<sessions, nextTaskId, now>>

\* line 84-86: load the row; 404 when absent
update_task_load(p, task_id, updated_task) ==
    /\ pc[p] = "idle"
    /\ IF ~TaskExists(task_id)
       THEN Respond(p, "update_task", task_id, 404)
       ELSE /\ Continue(p, "update_task_check", task_id)
            /\ arg_task' = [arg_task EXCEPT ![p] = updated_task]
            /\ loaded' = [loaded EXCEPT ![p] = tasks[task_id]]
            /\ UNCHANGED loaded_sess
    /\ UNCHANGED <<tasks, sessions, nextTaskId, now>>

\* line 88-89: the title check, excluding the row itself
update_task_check(p) ==
    /\ pc[p] = "update_task_check"
    /\ IF TitleExistsOther(arg_task[p].title, arg_id[p])
       THEN Respond(p, "update_task", arg_id[p], 400)
       ELSE /\ Continue(p, "update_task_commit", arg_id[p])
            /\ UNCHANGED <<arg_task, loaded, loaded_sess>>
    /\ UNCHANGED <<tasks, sessions, nextTaskId, now>>

\* line 91-95
update_task_commit(p) ==
    /\ pc[p] = "update_task_commit"
    /\ LET r == UpdateTask(arg_id[p], loaded[p], arg_task[p])
       IN /\ tasks' = r.tasks
          /\ Respond(p, "update_task", arg_id[p], r.status)
    /\ UNCHANGED <<sessions, nextTaskId, now>>

\* ---- DELETE /tasks/{task_id} ----

\* a plausible slip: the delete cascades to the task's sessions
SessionsAfterTaskDelete_cascade(task_id) ==
    SelectSeq(sessions, LAMBDA s : s.task_id # task_id)

\* the session table after DELETE FROM tasks WHERE id = task_id: task_id
\* (line 32) is a plain column, no ForeignKey and no relationship, so no
\* session row is touched
SessionsAfterTaskDelete(task_id) == sessions

\* line 103-104: DELETE and commit (a row already deleted by another request
\* only draws a warning)
TasksAfterTaskDelete(task_id) == [t \in DOMAIN tasks \ {task_id} |-> tasks[t]]

\* a plausible slip: a delete that does not look the task up first
delete_task_noCheck(p, task_id) ==
    /\ pc[p] = "idle"
    /\ tasks' = TasksAfterTaskDelete(task_id)
    /\ sessions' = SessionsAfterTaskDelete(task_id)
    /\ Respond(p, "delete_task", task_id, 200)
    /\ UNCHANGED <<nextTaskId, now>>

\* line 98-105, as one action
delete_task(p, task_id) ==
    /\ pc[p] = "idle"
    /\ IF ~TaskExists(task_id)
       THEN /\ Respond(p, "delete_task", task_id, 404)
            /\ UNCHANGED <<tasks, sessions>>
       ELSE /\ tasks' = TasksAfterTaskDelete(task_id)
            /\ sessions' = SessionsAfterTaskDelete(task_id)
            /\ Respond(p, "delete_task", task_id, 200)
    /\ UNCHANGED <<nextTaskId, now>>

\* line 99-101
delete_task_load(p, task_id) ==
    /\ pc[p] = "idle"
    /\ IF ~TaskExists(task_id)
       THEN Respond(p, "delete_task", task_id, 404)
       ELSE /\ Continue(p, "delete_task_commit", task_id)
            /\ UNCHANGED <<arg_task, loaded, loaded_sess>>
    /\ UNCHANGED <<tasks, sessions, nextTaskId, now>>

\* line 103-105
delete_task_commit(p) ==
    /\ pc[p] = "delete_task_commit"
    /\ tasks' = TasksAfterTaskDelete(arg_id[p])
    /\ sessions' = SessionsAfterTaskDelete(arg_id[p])
    /\ Respond(p, "delete_task", arg_id[p], 200)
    /\ UNCHANGED <<nextTaskId, now>>

\* ---- POST /pomodoro ----

\* line 109-111
create_pomodoro_load(p, task_id) ==
    /\ pc[p] = "idle"
    /\ ~TaskExists(task_id)
         \/ Len(sessions) + Pending({"create_pomodoro_check", "create_pomodoro_commit"})
              < MaxSessions
    /\ IF ~TaskExists(task_id)
       THEN Respond(p, "create_pomodoro", task_id, 404)
       ELSE /\ Continue(p, "create_pomodoro_check", task_id)
            /\ UNCHANGED <<arg_task, loaded, loaded_sess>>
    /\ UNCHANGED <<tasks, sessions, nextTaskId, now>>

\* line 113-114: the active-session check
create_pomodoro_check(p) ==
    /\ pc[p] = "create_pomodoro_check"
    /\ IF ActiveSessions(arg_id[p]) # {}
       THEN Respond(p, "create_pomodoro", arg_id[p], 400)
       ELSE /\ Continue(p, "create_pomodoro_commit", arg_id[p])
            /\ UNCHANGED <<arg_task, loaded, loaded_sess>>
    /\ UNCHANGED <<tasks, sessions, nextTaskId, now>>

\* line 116-122: read the clock, INSERT, commit
create_pomodoro_commit(p) ==
    /\ pc[p] = "create_pomodoro_commit"
    /\ sessions' = Append(sessions, NewSession(arg_id[p], now))
    /\ Respond(p, "create_pomodoro", arg_id[p], 200)
    /\ UNCHANGED <<tasks, nextTaskId, now>>

\* ---- POST /pomodoro/{task_id}/stop ----

\* a plausible slip: stop refuses a session whose end_time is not reached
StopAllowed_afterEnd(i) == now >= sessions[i].end_time

\* line 126-128 put no condition on the session found beyond the filter
StopAllowed(i) == TRUE

\* line 126-128: .first() of the active sessions of the task, in no stated
\* order: any of them
stop_pomodoro_query(p, task_id) ==
    /\ pc[p] = "idle"
    /\ LET found == {i \in ActiveSessions(task_id) : StopAllowed(i)}
       IN IF found = {}
          THEN Respond(p, "stop_pomodoro", task_id, 404)
          ELSE /\ \E i \in found : loaded_sess' = [loaded_sess EXCEPT ![p] = i]
               /\ Continue(p, "stop_pomodoro_commit", task_id)
               /\ UNCHANGED <<arg_task, loaded>>
    /\ UNCHANGED <<tasks, sessions, nextTaskId, now>>

\* a plausible slip: stop flips the flag instead of setting it
Completed_toggle(i) == [sessions EXCEPT ![i].completed = ~sessions[i].completed]

\* line 130: session.completed = True, flushed as UPDATE ... WHERE id = i
Completed(i) == [sessions EXCEPT ![i].completed = TRUE]

\* line 130-132
stop_pomodoro_commit(p) ==
    /\ pc[p] = "stop_pomodoro_commit"
    /\ sessions' = Completed(loaded_sess[p])
    /\ Respond(p, "stop_pomodoro", arg_id[p], 200)
    /\ UNCHANGED <<tasks, nextTaskId, now>>

\* ---- GET /pomodoro/stats ----

\* a plausible slip: the completed filter left out of the stats query
CompletedSessions_all == sessions

\* line 137: db.query(PomodoroSession).filter(completed == True).all()
CompletedSessions == SelectSeq(sessions, LAMBDA s : s.completed = TRUE)

\* line 138-139: for session in sessions:
\*     stats[session.task_id] = stats.get(session.task_id, 0) + 25
RECURSIVE StatsLoop(_, _)
StatsLoop(rows, stats) ==
    IF rows = <<>> THEN stats
    ELSE LET t == Head(rows).task_id
             got == IF t \in DOMAIN stats THEN stats[t] ELSE 0
         IN StatsLoop(Tail(rows),
                      [k \in DOMAIN stats \cup {t} |->
                          IF k = t THEN got + StatsCredit ELSE stats[k]])

\* line 135-141
get_pomodoro_stats(p) ==
    /\ pc[p] = "idle"
    /\ last' = [op |-> "get_pomodoro_stats", task_id |-> 0, status |-> 200,
                stats |-> StatsLoop(CompletedSessions, EmptyMap)]
    /\ UNCHANGED <<tasks, sessions, nextTaskId, now, pc, arg_id, arg_task,
                   loaded, loaded_sess>>

\* ---- the clock ----
Tick ==
    /\ now + TickStep <= MaxClock
    /\ now' = now + TickStep
    /\ UNCHANGED <<tasks, sessions, nextTaskId, pc, arg_id, arg_task,
                   loaded, loaded_sess, last>>

\* ---- the whole service ----
Next ==
    \/ \E p \in Procs : read_root(p)
    \/ \E p \in Procs, task \in Task : create_task(p, task)
    \/ \E p \in Procs : get_tasks(p)
    \/ \E p \in Procs, task_id \in TaskIds : get_task(p, task_id)
    \/ \E p \in Procs, task_id \in TaskIds, task \in Task :
          update_task(p, task_id, task)
    \/ \E p \in Procs, task_id \in TaskIds : delete_task(p, task_id)
    \/ \E p \in Procs, task_id \in TaskIds : create_pomodoro_load(p, task_id)
    \/ \E p \in Procs : create_pomodoro_check(p)
    \/ \E p \in Procs : create_pomodoro_commit(p)
    \/ \E p \in Procs, task_id \in TaskIds : stop_pomodoro_query(p, task_id)
    \/ \E p \in Procs : stop_pomodoro_commit(p)
    \/ \E p \in Procs : get_pomodoro_stats(p)
    \/ Tick

Spec == Init /\ [][Next]_vars

\* ---- the task handlers, statement by statement ----
TaskNext ==
    \/ \E p \in Procs, task \in Task : create_task_check(p, task)
    \/ \E p \in Procs : create_task_commit(p)
    \/ \E p \in Procs, task_id \in TaskIds, task \in Task :
          update_task_load(p, task_id, task)
    \/ \E p \in Procs : update_task_check(p)
    \/ \E p \in Procs : update_task_commit(p)
    \/ \E p \in Procs, task_id \in TaskIds : delete_task_load(p, task_id)
    \/ \E p \in Procs : delete_task_commit(p)

TaskSpec == Init /\ [][TaskNext]_vars

(***************************************************************************)
(* Properties                                                              *)
(***************************************************************************)

\* the sessions of task t that are not completed, and those that are
Active(sess, t) ==
    {i \in 1..Len(sess) : sess[i].task_id = t /\ ~sess[i].completed}
Done(sess, t) ==
    {i \in 1..Len(sess) : sess[i].task_id = t /\ sess[i].completed}
\* the response sent by the step
Answered(name, status) == last'.op = name /\ last'.status = status

\* C1: in every reachable state, every task_id has at most one session with
\* completed = false, also when start requests for one task interleave.
C1_AtMostOneActive ==
    \A t \in TaskIds : Cardinality(Active(sessions, t)) <= 1

\* C2: in every reachable state no two distinct task rows have the same
\* title, whatever create_task, update_task and delete_task requests ran.
C2_TitlesUnique ==
    \A a \in DOMAIN tasks : \A b \in DOMAIN tasks :
        a # b => tasks[a].title # tasks[b].title
\* two tasks are stored and the unique constraint has just refused a write
\* that had passed its handler's title check
C2_Witness ==
    /\ Cardinality(DOMAIN tasks) = 2
    /\ last.status = 500

\* C3: create_task with the title of an existing task, and update_task of an
\* existing task to the title of another existing task, answer 400 and leave
\* both tables unchanged; update_task to the task's own title answers 200
\* and replaces the row.
C3_TitleCollision ==
    [][ /\ \A p \in Procs, task \in Task :
             (create_task(p, task)
                /\ \E t \in DOMAIN tasks : tasks[t].title = task.title)
             => (Answered("create_task", 400) /\ UNCHANGED stores)
        /\ \A p \in Procs, id \in TaskIds, task \in Task :
             (update_task(p, id, task) /\ id \in DOMAIN tasks
                /\ \E t \in DOMAIN tasks \ {id} : tasks[t].title = task.title)
             => (Answered("update_task", 400) /\ UNCHANGED stores)
        /\ \A p \in Procs, id \in TaskIds, task \in Task :
             (update_task(p, id, task) /\ id \in DOMAIN tasks
                /\ tasks[id].title = task.title)
             => /\ Answered("update_task", 200)
                /\ tasks' = [tasks EXCEPT ![id] = task]
                /\ sessions' = sessions
      ]_vars
\* an update has just been refused for its title while two tasks and a
\* session are stored
C3_Witness ==
    /\ last.op = "update_task" /\ last.status = 400
    /\ Cardinality(DOMAIN tasks) = 2
    /\ Len(sessions) > 0

\* C4: start for an existing task answers 400 and inserts nothing when the
\* task has a session with completed = false; when it has none it answers 200
\* and appends exactly one session of that task with completed = false (so a
\* start that follows it with no stop in between answers 400).
C4_Start ==
    [][ \A p \in Procs :
          /\ \A t \in TaskIds :
               (create_pomodoro_load(p, t) /\ t \in DOMAIN tasks)
               => (pc'[p] = "create_pomodoro_check" /\ UNCHANGED stores)
          /\ (create_pomodoro_check(p) /\ Active(sessions, arg_id[p]) # {})
             => (Answered("create_pomodoro", 400) /\ UNCHANGED stores)
          /\ (create_pomodoro_check(p) /\ Active(sessions, arg_id[p]) = {})
             => (pc'[p] = "create_pomodoro_commit" /\ UNCHANGED stores)
          /\ create_pomodoro_commit(p)
             => /\ Answered("create_pomodoro", 200)
                /\ Len(sessions') = Len(sessions) + 1
                /\ SubSeq(sessions', 1, Len(sessions)) = sessions
                /\ sessions'[Len(sessions')].task_id = arg_id[p]
                /\ sessions'[Len(sessions')].completed = FALSE
                /\ tasks' = tasks
      ]_vars
\* start, start: the second has just been answered 400 and the task has its
\* one active session
C4_Witness ==
    /\ last.op = "create_pomodoro" /\ last.status = 400
    /\ Len(sessions) = 1
    /\ sessions[1].task_id = last.task_id /\ ~sessions[1].completed

\* C5: stop of a task that has an active session sets that session's
\* completed to true, and a stop of the same task right after it (no start
\* in between) finds no active session and answers 404, changing nothing.
C5_StopTwice ==
    [][ \A p \in Procs :
          /\ (stop_pomodoro_commit(p) /\ ~sessions[loaded_sess[p]].completed)
             => /\ sessions'[loaded_sess[p]].completed
                /\ Active(sessions', arg_id[p]) = {}
          /\ \A t \in TaskIds :
               (stop_pomodoro_query(p, t) /\ Active(sessions, t) = {})
               => (Answered("stop_pomodoro", 404) /\ UNCHANGED stores)
      ]_vars

\* the stats mapping the spec describes, from the session table
ExpectedStats(sess) ==
    [t \in {sess[i].task_id : i \in {j \in 1..Len(sess) : sess[j].completed}}
        |-> 25 * Cardinality(Done(sess, t))]

\* C6: in every reachable state the stats request returns the mapping whose
\* keys are the task ids with at least one completed session and whose values
\* are 25 times the number of completed sessions of the key, and it changes
\* neither table.
C6_Stats ==
    /\ [](StatsLoop(CompletedSessions, EmptyMap) = ExpectedStats(sessions))
    /\ [][ \A p \in Procs :
             get_pomodoro_stats(p)
             => /\ Answered("get_pomodoro_stats", 200)
                /\ last'.stats = ExpectedStats(sessions)
                /\ UNCHANGED stores
         ]_vars
\* the stats just returned credit one task with two completed sessions, the
\* later of them stopped before its end_time
C6_Witness ==
    /\ last.op = "get_pomodoro_stats"
    /\ \E t \in DOMAIN last.stats : last.stats[t] = 50
    /\ \E i \in 1..Len(sessions) : sessions[i].completed /\ now < sessions[i].end_time

\* C7: a request that fails a precondition answers 404 (start, get, update or
\* delete of a task that does not exist, stop with no active session) or 400
\* (start with an active session, create or update with a taken title), and
\* the step that answers 400 or 404 leaves both tables as they were.
C7_FailuresChangeNothing ==
    [][ /\ last'.status \in {400, 404} => UNCHANGED stores
        /\ \A p \in Procs, t \in TaskIds :
             /\ (create_pomodoro_load(p, t) /\ t \notin DOMAIN tasks)
                => Answered("create_pomodoro", 404)
             /\ (stop_pomodoro_query(p, t) /\ Active(sessions, t) = {})
                => Answered("stop_pomodoro", 404)
             /\ (get_task(p, t) /\ t \notin DOMAIN tasks)
                => Answered("get_task", 404)
             /\ (delete_task(p, t) /\ t \notin DOMAIN tasks)
                => Answered("delete_task", 404)
             /\ \A task \in Task :
                  (update_task(p, t, task) /\ t \notin DOMAIN tasks)
                  => Answered("update_task", 404)
             /\ \A task \in Task :
                  (update_task(p, t, task) /\ t \in DOMAIN tasks
                     /\ \E u \in DOMAIN tasks \ {t} : tasks[u].title = task.title)
                  => Answered("update_task", 400)
        /\ \A p \in Procs, task \in Task :
             (create_task(p, task)
                /\ \E u \in DOMAIN tasks : tasks[u].title = task.title)
             => Answered("create_task", 400)
        /\ \A p \in Procs :
             (create_pomodoro_check(p) /\ Active(sessions, arg_id[p]) # {})
             => Answered("create_pomodoro", 400)
      ]_vars
\* a start for a task id that does not exist has just been answered 404
\* while tasks and sessions are stored
C7_Witness ==
    /\ last.op = "create_pomodoro" /\ last.status = 404
    /\ last.task_id \notin DOMAIN tasks
    /\ DOMAIN tasks # {}
    /\ Len(sessions) > 0

\* C8: delete_task of an existing task removes that task row only and leaves
\* the session table as it was; a stop of the deleted task still finds its
\* active session and completes it, and the completed sessions of a deleted
\* task are still credited in the stats.
C8_DeleteKeepsSessions ==
    /\ [][ \A p \in Procs, t \in TaskIds :
             /\ (delete_task(p, t) /\ t \in DOMAIN tasks)
                => /\ Answered("delete_task", 200)
                   /\ sessions' = sessions
                   /\ DOMAIN tasks' = DOMAIN tasks \ {t}
                   /\ \A u \in DOMAIN tasks' : tasks'[u] = tasks[u]
             /\ (stop_pomodoro_query(p, t) /\ t \notin DOMAIN tasks
                   /\ Active(sessions, t) # {})
                => /\ pc'[p] = "stop_pomodoro_commit"
                   /\ loaded_sess'[p] \in Active(sessions, t)
             /\ (stop_pomodoro_commit(p) /\ arg_id[p] = t /\ t \notin DOMAIN tasks)
                => /\ Answered("stop_pomodoro", 200)
                   /\ sessions'[loaded_sess[p]].completed
         ]_vars
    /\ [](\A t \in TaskIds :
            (t \notin DOMAIN tasks /\ Done(sessions, t) # {})
            => LET stats == StatsLoop(CompletedSessions, EmptyMap)
               IN t \in DOMAIN stats /\ stats[t] = 25 * Cardinality(Done(sessions, t)))
\* the stop just answered 200 completed a session of a task that is deleted
C8_Witness ==
    /\ last.op = "stop_pomodoro" /\ last.status = 200
    /\ last.task_id \notin DOMAIN tasks
    /\ Done(sessions, last.task_id) # {}

\* C9: a session is inserted with completed = false, by start only, and no
\* step of any handler removes a session, changes which task it belongs
\* to, or sets completed back to false once it is true.
C9_Lifecycle ==
    [][ /\ Len(sessions') >= Len(sessions)
        /\ \A i \in 1..Len(sessions) :
             /\ sessions'[i].task_id = sessions[i].task_id
             /\ sessions[i].completed => sessions'[i].completed
        /\ \A i \in (Len(sessions) + 1)..Len(sessions') :
             /\ ~sessions'[i].completed
             /\ Answered("create_pomodoro", 200)
        /\ (\E i \in 1..Len(sessions) :
               ~sessions[i].completed /\ sessions'[i].completed)
           => Answered("stop_pomodoro", 200)
      ]_vars
\* a completed session has stayed completed through a later start of its task
C9_Witness ==
    /\ Len(sessions) = 2
    /\ sessions[1].completed /\ ~sessions[2].completed
    /\ sessions[1].task_id = sessions[2].task_id
    /\ last.op = "create_pomodoro" /\ last.status = 200

\* C10: every session has end_time = start_time + 25 minutes with start_time
\* the clock at its start; no step changes the start_time or end_time of a
\* session; stop takes the active session whatever the clock is, before or
\* after end_time.
C10_Times ==
    /\ [](\A i \in 1..Len(sessions) :
            sessions[i].end_time = sessions[i].start_time + 25)
    /\ [][ /\ \A i \in 1..Len(sessions) :
                /\ i <= Len(sessions')
                /\ sessions'[i].start_time = sessions[i].start_time
                /\ sessions'[i].end_time = sessions[i].end_time
           /\ \A i \in (Len(sessions) + 1)..Len(sessions') :
                sessions'[i].start_time = now
           /\ \A p \in Procs, t \in TaskIds :
                (stop_pomodoro_query(p, t) /\ Active(sessions, t) # {})
                => pc'[p] = "stop_pomodoro_commit"
           /\ \A p \in Procs :
                stop_pomodoro_commit(p)
                => (Answered("stop_pomodoro", 200)
                     /\ sessions'[loaded_sess[p]].completed)
         ]_vars
\* the stop just answered 200 completed a session of its task before that
\* session's end_time
C10_Witness ==
    /\ last.op = "stop_pomodoro" /\ last.status = 200
    /\ \E i \in 1..Len(sessions) :
         /\ sessions[i].completed /\ now < sessions[i].end_time
         /\ sessions[i].task_id = last.task_id
====
